---- MODULE Spec2Model ----
(***************************************************************************)
(* Alert lifecycle and phase-skip history (ATSPMReport.py), phase-skip     *)
(* processing (atspm_report/phase_skip_processing.py) and CUSUM scoring    *)
(* and alert rules (data_processing.py) of the ATSPM report generator.     *)
(*                                                                         *)
(* A pandas DataFrame is modelled as a bag (multiset) of rows: row order   *)
(* is not significant to any operation modelled here, row multiplicity is. *)
(* A datetime is an integer number of ticks; a Date column holds midnight  *)
(* datetimes, i.e. multiples of TicksPerDay.                               *)
(***************************************************************************)
EXTENDS Integers, FiniteSets, Sequences, Bags, TLC

\* ---------------------------------------------------------------- bounds
TicksPerDay == 2      \* resolution of the time of day (tick 0 = exactly midnight)
MaxDay      == 8      \* last calendar day on which a run may start
MaxRuns     == 2      \* number of runs of main() explored
DaysBack    == 2      \* how far back of "today" the raised rows may be dated
MaxBatch    == 2      \* rows in one raised batch

\* ------------------------------------------------------ program constants
DaysPerWeek == 7      \* datetime.timedelta(weeks=1)

AlertTypes ==
    {"maxout", "actuations", "missing_data", "pedestrian", "phase_skips", "system_outages"}

\* EntityKeys: the values of the id columns of a type (DeviceId and Phase,
\* DeviceId and Detector, DeviceId, or Region)
Keys == {1, 2}

\* configuration values explored (defaults are 7 / 21 / 104, scaled down)
FlaggingDaysChoices    == {1, 2}
SuppressionDaysChoices == {2, 3}
RetentionWeeksChoices  == {0, 1}
NumSignalsChoices      == {4}

VARIABLES
    day,        \* calendar day of datetime.now()
    tod,        \* time of day of datetime.now(), in ticks
    cfg,        \* configuration and len(signals_df) of the deployment
    files,      \* past_<suffix>_alerts file of every alert type (bag of rows)
    runs,       \* number of completed runs of main()
    raised,     \* last run: alert rows before date filtering, per type
    flagged,    \* last run: rows handed to suppression and to the history update
    past,       \* last run: past_alerts as loaded by load_past_alerts
    reported,   \* last run: final_*_alerts (what reaches plots and PDF)
    before,     \* last run: the files as they were when the run started
    ranAt,      \* last run: datetime.now() of the run
    repeated,   \* last run repeated the run before it (same data, same now)
    raw_data,   \* phase skips: the staged controller events (bag of rows)
    phase_waits_out, \* phase skips: phase_waits returned by the transform
    alert_rows_out,  \* phase skips: alert_rows returned by the transform
    transformed, \* phase skips: the transform has run on raw_data
    hist_cfg,        \* phase-skip history: retention days and alert threshold
    folder,          \* phase-skip history: the daily files, by the date in their name
    folder_before,   \* phase-skip history: the folder as the load found it
    phase_skip_all_rows,         \* rows returned by load_phase_skip_history
    phase_skip_summary,          \* summary returned by summarize_phase_skip_alerts
    phase_skip_alert_candidates, \* candidates returned by summarize_phase_skip_alerts
    hist_loaded,     \* phase-skip history: the load has run
    metric_family,   \* cusum: the family of daily_df ("maxout", "actuations", "missing_data")
    daily_df,        \* cusum: the daily observations handed to cusum (set of rows)
    cusum_table,     \* cusum: the table returned by cusum
    alert_result,    \* alert: every row with z_score, Alert and days_from_max
    final_result,    \* alert: the table returned by alert
    ieee_floating_point_ops, \* cusum: DuckDB setting, a float x / 0 is IEEE (TRUE) or NULL
    scored,          \* cusum: 0 = nothing computed, 1 = cusum has run, 2 = alert has run
    opts,            \* main step by step: arguments and switches of the configuration
    corrupt,         \* main step by step: alert types whose history file cannot be read
    unwritable,      \* main step by step: alert types whose history file cannot be written
    pc,              \* main step by step: position of every run of main()
    run,             \* main step by step: the local variables of every run
    weekday,         \* run_report: day of the week of the scheduler, 0 = Monday
    dpc,             \* run_report: position inside run_daily_tasks, "waiting" outside
    try_count,       \* run_report: loop variable of the retry loop
    step,            \* run_report: the query get_data is at (1..5)
    raw_files,       \* run_report: per raw file, the attempt (1..3) that wrote it,
                     \*             0 = left from an earlier day, -1 = left truncated
    attempts,        \* run_report: outcome of every call of get_data, in order
    slept,           \* run_report: seconds spent in time.sleep by run_daily_tasks
    launched         \* run_report: number of times ATSPMReport.py was launched

lcvars == <<day, tod, cfg, files, runs, raised, flagged, past, reported, before, ranAt, repeated>>
psvars == <<raw_data, phase_waits_out, alert_rows_out, transformed>>
hsvars == <<hist_cfg, folder, folder_before, phase_skip_all_rows, phase_skip_summary,
           phase_skip_alert_candidates, hist_loaded>>
csvars == <<metric_family, ieee_floating_point_ops, daily_df, cusum_table,
            alert_result, final_result, scored>>
mnvars == <<opts, corrupt, unwritable, pc, run>>
dtvars == <<weekday, dpc, try_count, step, raw_files, attempts, slept, launched>>
vars == <<lcvars, psvars, hsvars, csvars, mnvars, dtvars>>

\* ------------------------------------------------------------ time helpers
\* pd.to_datetime(Date): a Date (day number) as a datetime at midnight
to_datetime(d) == d * TicksPerDay

\* datetime.now()
Now == day * TicksPerDay + tod

\* timedelta(days=n), timedelta(weeks=n)
timedelta_days(n)  == n * TicksPerDay
timedelta_weeks(n) == n * DaysPerWeek * TicksPerDay

\* ------------------------------------------------------------ bag helpers
\* df[mask]: the rows of bag B that are in the set keep, multiplicities kept
Filter(B, keep) == [r \in keep \cap DOMAIN B |-> B[r]]

\* pd.concat([A, B])
concat(A, B) == A (+) B

\* DataFrame.drop_duplicates(): one copy of every distinct row
drop_duplicates(B) == [r \in DOMAIN B |-> 1]

Rows(B) == DOMAIN B

Row(k, d) == [key |-> k, Date |-> d]

\* --------------------------------------------------- ATSPMReport.py helpers
\* load_past_alerts, for one alert type: the rows of the stored file; for
\* missing_data only the rows of the Dates that have fewer than
\* 0.30 * len(signals_df) rows in the file (count(*) < signal_count).
\* 10 * count < 3 * n is count < 0.30 * n without fractions.
load_past_alerts(file, alert_type, num_signals) ==
    IF alert_type = "missing_data"
    THEN LET count(d) == BagCardinality(Filter(file, {x \in DOMAIN file : x.Date = d}))
         IN  Filter(file, {r \in DOMAIN file : 10 * count(r.Date) < 3 * num_signals})
    ELSE file

\* recent_past_alerts of suppress_alerts: past rows dated on or after
\* now - timedelta(days=suppression_days)
recent_past_alerts(past_alerts_df, suppression_days, now) ==
    Filter(past_alerts_df, {r \in DOMAIN past_alerts_df : to_datetime(r.Date) >= now - timedelta_days(suppression_days)})

\* suppression_keys of suppress_alerts: recent[id_cols].drop_duplicates()
suppression_keys(recent) == {r.key : r \in Rows(recent)}

\* mutant of suppress_alerts: the merge is made on the id columns and Date,
\* so a past record silences only the rows of its own day
suppress_alerts_per_day(new_alerts_df, past_alerts_df, suppression_days, now) ==
    IF past_alerts_df = EmptyBag THEN new_alerts_df
    ELSE LET recent == recent_past_alerts(past_alerts_df, suppression_days, now)
         IN  IF recent = EmptyBag THEN new_alerts_df
             ELSE Filter(new_alerts_df, {r \in DOMAIN new_alerts_df : r \notin Rows(recent)})

\* suppress_alerts: left merge of the new rows with the suppression keys on
\* the id columns, keeping the rows that found no match ('left_only')
suppress_alerts(new_alerts_df, past_alerts_df, suppression_days, now) ==
    IF past_alerts_df = EmptyBag THEN new_alerts_df
    ELSE LET recent == recent_past_alerts(past_alerts_df, suppression_days, now)
         IN  IF recent = EmptyBag THEN new_alerts_df
             ELSE Filter(new_alerts_df, {r \in DOMAIN new_alerts_df : r.key \notin suppression_keys(recent)})

\* mutant of retained_alerts: the retention comparison is strict
retained_alerts_strict(combined, retention_weeks, now) ==
    IF retention_weeks > 0
    THEN Filter(combined, {r \in DOMAIN combined : to_datetime(r.Date) > now - timedelta_weeks(retention_weeks)})
    ELSE combined

\* the retention step of update_and_save_alerts
retained_alerts(combined_alerts, retention_weeks, now) ==
    IF retention_weeks > 0
    THEN Filter(combined_alerts, {r \in DOMAIN combined_alerts : to_datetime(r.Date) >= now - timedelta_weeks(retention_weeks)})
    ELSE combined_alerts

\* mutant of combined_alerts: the drop_duplicates call is missing
combined_alerts_no_dedup(new_alerts_df, past_alerts_df) ==
    concat(past_alerts_df, new_alerts_df)

\* combined_alerts of update_and_save_alerts: concat, then drop_duplicates
\* on the id columns and Date
combined_alerts(new_alerts_df, past_alerts_df) ==
    drop_duplicates(concat(past_alerts_df, new_alerts_df))

\* mutant of update_and_save_alerts: only the new rows are de-duplicated
\* before they are appended to the past rows
update_and_save_alerts_append(new_alerts_df, past_alerts_df, retention_weeks, now) ==
    retained_alerts(concat(past_alerts_df, drop_duplicates(new_alerts_df)), retention_weeks, now)

\* update_and_save_alerts: the content written to the history file
update_and_save_alerts(new_alerts_df, past_alerts_df, retention_weeks, now) ==
    retained_alerts(combined_alerts(new_alerts_df, past_alerts_df), retention_weeks, now)

\* main, lines 424-434 and 506-512: the rows handed on to suppression and to
\* the history update.  Every type is filtered to Date >= now -
\* alert_flagging_days except system_outages, which is passed on as computed.
recent_new_alerts(alert_type, new_alerts, flagging_days, now) ==
    IF alert_type = "system_outages"
    THEN new_alerts
    ELSE Filter(new_alerts, {r \in DOMAIN new_alerts : to_datetime(r.Date) >= now - timedelta_days(flagging_days)})

\* ------------------------------------------------------------------ inputs
\* the alert rows a run can raise: at most MaxBatch rows dated in the loaded
\* data window [today - DaysBack, today], one row per (key, Date)
RaisedBatches(today) ==
    LET rows == {Row(k, d) : k \in Keys, d \in (today - DaysBack)..today}
    IN  {SetToBag(S) : S \in {T \in SUBSET rows : Cardinality(T) <= MaxBatch}}

NoRows == [t \in AlertTypes |-> EmptyBag]

\* no controller events staged, transform not run
PhaseSkipIdle ==
    /\ raw_data = EmptyBag
    /\ phase_waits_out = {}
    /\ alert_rows_out = {}
    /\ transformed = FALSE

\* no phase-skip history folder looked at
HistoryIdle ==
    /\ hist_cfg = [phase_skip_retention_days |-> 0, phase_skip_alert_threshold |-> 0]
    /\ folder = << >>
    /\ folder_before = << >>
    /\ phase_skip_all_rows = EmptyBag
    /\ phase_skip_summary = {}
    /\ phase_skip_alert_candidates = {}
    /\ hist_loaded = FALSE

\* no metric table scored
CusumIdle ==
    /\ metric_family = "maxout"
    /\ ieee_floating_point_ops = TRUE
    /\ daily_df = {}
    /\ cusum_table = {}
    /\ alert_result = {}
    /\ final_result = {}
    /\ scored = 0

\* the alert types in the order of ALERT_CONFIG, which is the order in which
\* main loads and saves their histories
TypeOrder ==
    <<"maxout", "actuations", "missing_data", "pedestrian", "phase_skips", "system_outages">>

\* the runs of main() that are followed step by step
Procs == {1, 2}

\* the local variables of a run that has not started (before: the files as
\* the run found them; after: the runs that had ended when this one began)
NotStarted ==
    [new_alerts |-> NoRows, recent_new_alerts |-> NoRows, past_alerts |-> NoRows,
     final_alerts |-> NoRows, before |-> NoRows, report_result |-> "unset",
     exception |-> "none", data_read |-> FALSE, read |-> {}, written |-> {},
     pruned |-> FALSE, plotted |-> FALSE, success |-> "unset", i |-> 1, after |-> {}]

\* the raw data files get_data writes, in the order it writes them
RawFiles == <<"signals", "has_data", "full_ped", "terminations", "detector_health">>

\* run_daily_tasks not followed
DailyIdle ==
    /\ weekday = 0
    /\ dpc = "waiting"
    /\ try_count = 0
    /\ step = 1
    /\ raw_files = [f \in 1..Len(RawFiles) |-> 0]
    /\ attempts = << >>
    /\ slept = 0
    /\ launched = 0

\* no run of main() followed step by step
MainIdle ==
    /\ opts = [use_parquet |-> TRUE, connection_params |-> {}, signals_query |-> FALSE,
               use_past_alerts |-> TRUE, should_email_reports |-> FALSE]
    /\ corrupt = {}
    /\ unwritable = {}
    /\ pc = [p \in Procs |-> "validate"]
    /\ run = [p \in Procs |-> NotStarted]

Init ==
    /\ PhaseSkipIdle
    /\ HistoryIdle
    /\ CusumIdle
    /\ MainIdle
    /\ DailyIdle
    /\ day = 0
    /\ tod = 0
    /\ cfg \in [alert_flagging_days    : FlaggingDaysChoices,
                alert_suppression_days : SuppressionDaysChoices,
                alert_retention_weeks  : RetentionWeeksChoices,
                num_signals            : NumSignalsChoices]
    /\ files = NoRows
    /\ runs = 0
    /\ raised = NoRows
    /\ flagged = NoRows
    /\ past = NoRows
    /\ reported = NoRows
    /\ before = NoRows
    /\ ranAt = -1
    /\ repeated = FALSE

\* time passes by one tick.  Days are counted from the day of the first run,
\* and time after the last explored run is not followed.
Tick ==
    /\ runs < MaxRuns
    /\ \/ /\ tod < TicksPerDay - 1
          /\ tod' = tod + 1
          /\ day' = day
       \/ /\ tod = TicksPerDay - 1
          /\ runs >= 1
          /\ day < MaxDay
          /\ tod' = 0
          /\ day' = day + 1
    /\ UNCHANGED <<cfg, files, runs, raised, flagged, past, reported, before, ranAt, repeated>>
    /\ UNCHANGED <<psvars, hsvars, csvars, mnvars, dtvars>>

\* one run of main() with use_past_alerts: date filter, load, suppress,
\* report, then update and save every history
Main(batch) ==
    /\ runs < MaxRuns
    /\ raised' = [t \in AlertTypes |-> batch]
    /\ flagged' = [t \in AlertTypes |->
                      recent_new_alerts(t, raised'[t], cfg.alert_flagging_days, Now)]
    /\ past' = [t \in AlertTypes |-> load_past_alerts(files[t], t, cfg.num_signals)]
    /\ reported' = [t \in AlertTypes |->
                      suppress_alerts(flagged'[t], past'[t], cfg.alert_suppression_days, Now)]
    /\ files' = [t \in AlertTypes |->
                      update_and_save_alerts(flagged'[t], past'[t], cfg.alert_retention_weeks, Now)]
    /\ before' = files
    /\ ranAt' = Now
    /\ repeated' = (runs >= 1 /\ ranAt = Now /\ raised' = raised)
    /\ runs' = runs + 1
    /\ UNCHANGED <<day, tod, cfg>>
    /\ UNCHANGED <<psvars, hsvars, csvars, mnvars, dtvars>>

Next ==
    \/ Tick
    \/ \E batch \in RaisedBatches(day) : Main(batch)

Spec == Init /\ [][Next]_vars

\* ------------------------------------------- the two functions on their own
\* suppress_alerts and update_and_save_alerts called directly, as a test or a
\* caller would, on a batch of new rows and a stored history that are drawn
\* at the start: the history holds at most MaxPast records, dated around the
\* suppression cutoff and around the retention cutoff of a run on day 0.
MaxPast == 2

PastDates ==
    LET S == CHOOSE n \in SuppressionDaysChoices : \A m \in SuppressionDaysChoices : n <= m
    IN  ((0 - S - 1)..0) \cup ((0 - DaysPerWeek - 1)..(1 - DaysPerWeek))

PastChoices ==
    LET rows == {Row(k, d) : k \in Keys, d \in PastDates}
    IN  {SetToBag(S) : S \in {T \in SUBSET rows : Cardinality(T) <= MaxPast}}

InitCalls ==
    /\ PhaseSkipIdle
    /\ HistoryIdle
    /\ CusumIdle
    /\ MainIdle
    /\ DailyIdle
    /\ day = 0
    /\ tod \in 0..(TicksPerDay - 1)
    /\ cfg \in [alert_flagging_days    : {DaysBack},
                alert_suppression_days : SuppressionDaysChoices,
                alert_retention_weeks  : RetentionWeeksChoices,
                num_signals            : NumSignalsChoices]
    /\ \E new \in RaisedBatches(0), old \in PastChoices :
           /\ raised = [t \in AlertTypes |-> new]
           /\ flagged = [t \in AlertTypes |-> new]
           /\ past = [t \in AlertTypes |-> old]
           /\ files = [t \in AlertTypes |-> old]
           /\ before = [t \in AlertTypes |-> old]
    /\ reported = NoRows
    /\ runs = 0
    /\ ranAt = -1
    /\ repeated = FALSE

\* suppress_alerts(new, history), then update_and_save_alerts(new, history)
SuppressAndSave ==
    /\ runs = 0
    /\ \E new \in {flagged[t] : t \in AlertTypes}, old \in {past[t] : t \in AlertTypes} :
           LET shown == suppress_alerts(new, old, cfg.alert_suppression_days, Now)
               saved == update_and_save_alerts(new, old, cfg.alert_retention_weeks, Now)
           IN  /\ reported' = [t \in AlertTypes |-> shown]
               /\ files' = [t \in AlertTypes |-> saved]
    /\ ranAt' = Now
    /\ runs' = 1
    /\ UNCHANGED <<day, tod, cfg, raised, flagged, past, before, repeated>>
    /\ UNCHANGED <<psvars, hsvars, csvars, mnvars, dtvars>>

NextCalls == SuppressAndSave

SpecCalls == InitCalls /\ [][NextCalls]_vars

\* ======================================= phase_skip_processing.py (transform)
CYCLE_LENGTH_MULTIPLIER_X2 == 3    \* CYCLE_LENGTH_MULTIPLIER = 1.5, doubled
FREE_SIGNAL_THRESHOLD == 180
SecondsPerDay == 86400             \* timestamp.truncate('D')
MaxEvents == 5                     \* rows of raw_data

\* a nullable column value: NULL, or NotNull(v) holding v
NULL == << >>
NotNull(v) == <<v>>
ValueOf(n) == n[1]

Event(d, t, e, p) == [deviceid |-> d, timestamp |-> t, eventid |-> e, parameter |-> p]

\* the controller events explored: preempt starts (102) and ends (104) of two
\* devices, max-cycle-length samples (132) and phase waits (612, 613) of device 1
Devices == {1, 2}
PreemptEventChoices == {Event(d, t, e, 1) : d \in Devices, t \in {0, 120}, e \in {102, 104}}
CycleEventChoices   == {Event(1, 0, 132, m) : m \in {0, 20, 121}}
WaitEventChoices    == {Event(1, t, e, w) : t \in {240, 301, 86700}, e \in {612, 613}, w \in {181, 301}}
EventChoices == PreemptEventChoices \cup CycleEventChoices \cup WaitEventChoices

\* preempt_events: the rows with eventid 102 or 104 (bag)
preempt_events(raw) == Filter(raw, {e \in DOMAIN raw : e.eventid \in {102, 104}})

\* order_by=[timestamp, eventid] of the window w
OrderedBefore(a, b) ==
    \/ a.timestamp < b.timestamp
    \/ a.timestamp = b.timestamp /\ a.eventid < b.eventid

\* timestamp.lead().over(w) for every row of preempt_events: the timestamp
\* of the next row of the same (deviceid, parameter) in the window order, NULL
\* for the last one.  Of n equal rows n - 1 are followed by an equal row.
preempt_pairs(raw) ==
    LET pe == preempt_events(raw)
        group(e) == {x \in Rows(pe) : x.deviceid = e.deviceid /\ x.parameter = e.parameter}
        later(e) == {x \in group(e) : OrderedBefore(e, x)}
        next(e)  == CHOOSE x \in later(e) : \A y \in later(e) : y = x \/ OrderedBefore(x, y)
        pair(e, end) == [deviceid |-> e.deviceid, preempt_number |-> e.parameter,
                         start_time |-> e.timestamp, end_time |-> end]
    IN  {pair(e, IF later(e) = {} THEN NULL ELSE NotNull(next(e).timestamp)) : e \in Rows(pe)}
        \cup {pair(e, NotNull(e.timestamp)) : e \in {x \in Rows(pe) : CopiesIn(x, pe) > 1}}

\* valid_preempt_intervals: pairs with an end after the start
valid_preempt_intervals(raw) ==
    {p \in preempt_pairs(raw) : p.end_time # NULL /\ ValueOf(p.end_time) > p.start_time}

\* max_cycles: per device the largest parameter of its 132 events; a device
\* without such an event has no row (NULL after the left joins)
max_cycle_length(raw, d) ==
    LET samples == {e.parameter : e \in {x \in Rows(raw) : x.eventid = 132 /\ x.deviceid = d}}
    IN  IF samples = {} THEN NULL
        ELSE NotNull(CHOOSE m \in samples : \A n \in samples : n <= m)

\* cycle_seconds: (max_cycle_len * CYCLE_LENGTH_MULTIPLIER).ceil().cast('int')
cycle_seconds(max_cycle_len) ==
    (max_cycle_len * CYCLE_LENGTH_MULTIPLIER_X2 + 1) \div 2

\* mutant of added_seconds: every window is extended by the fixed fallback
added_seconds_fixed(max_cycle_len) == FREE_SIGNAL_THRESHOLD

\* mutant of added_seconds: the window ends with the interval
added_seconds_none(max_cycle_len) == 0

\* added_seconds: ifelse(max_cycle_len > 0, cycle_seconds, FREE_SIGNAL_THRESHOLD);
\* a NULL comparison takes the else branch
added_seconds(max_cycle_len) ==
    IF max_cycle_len # NULL /\ ValueOf(max_cycle_len) > 0
    THEN cycle_seconds(ValueOf(max_cycle_len))
    ELSE FREE_SIGNAL_THRESHOLD

\* preempt_windows: [start_time, end_time + added_seconds) per valid interval
preempt_windows(raw) ==
    {[deviceid     |-> p.deviceid,
      window_start |-> p.start_time,
      window_end   |-> ValueOf(p.end_time) + added_seconds(max_cycle_length(raw, p.deviceid))]
        : p \in valid_preempt_intervals(raw)}

\* is_preempted of one joined row
is_preempted(timestamp, w) ==
    timestamp >= w.window_start /\ timestamp < w.window_end

\* result: the phase waits (eventid 612..627, phase = eventid - 611) joined to
\* the windows and the max cycle of their device, grouped by (deviceid,
\* timestamp, phase, phase_wait_time, max_cycle_length) with
\* preempt_flag = coalesce(any(is_preempted), False).  Equal wait rows fall
\* into one group.
phase_waits_result(raw) ==
    {[DeviceId       |-> e.deviceid,
      Timestamp      |-> e.timestamp,
      Phase          |-> e.eventid - 611,
      PhaseWaitTime  |-> e.parameter,
      MaxCycleLength |-> max_cycle_length(raw, e.deviceid),
      PreemptFlag    |-> \E w \in preempt_windows(raw) :
                             w.deviceid = e.deviceid /\ is_preempted(e.timestamp, w)]
        : e \in {x \in Rows(raw) : x.eventid >= 612 /\ x.eventid <= 627}}

\* phase_wait_time > threshold, with threshold = max_cycle_length * 1.5 when
\* coalesce(max_cycle_length, 0) > 0 and FREE_SIGNAL_THRESHOLD otherwise
over_threshold(phase_wait_time, max_cycle_len) ==
    IF max_cycle_len # NULL /\ ValueOf(max_cycle_len) > 0
    THEN 2 * phase_wait_time > ValueOf(max_cycle_len) * CYCLE_LENGTH_MULTIPLIER_X2
    ELSE phase_wait_time > FREE_SIGNAL_THRESHOLD

\* alerts: the rows of result that are not preempted and over the threshold
alerts(result) ==
    {r \in result : r.PreemptFlag = FALSE /\ over_threshold(r.PhaseWaitTime, r.MaxCycleLength)}

\* timestamp.truncate('D'), as a day number
truncate_D(timestamp) == timestamp \div SecondsPerDay

\* alerts_agg: alerts grouped by (deviceid, phase, date, max_cycle_length)
alerts_agg(result) ==
    LET a == alerts(result)
        grp(r) == {x \in a : /\ x.DeviceId = r.DeviceId
                             /\ x.Phase = r.Phase
                             /\ truncate_D(x.Timestamp) = truncate_D(r.Timestamp)
                             /\ x.MaxCycleLength = r.MaxCycleLength}
        maxwait(g) == CHOOSE m \in {x.PhaseWaitTime : x \in g} :
                          \A x \in g : x.PhaseWaitTime <= m
    IN  {[DeviceId       |-> r.DeviceId,
          Phase          |-> r.Phase,
          Date           |-> truncate_D(r.Timestamp),
          MaxCycleLength |-> r.MaxCycleLength,
          MaxWaitTime    |-> maxwait(grp(r)),
          TotalSkips     |-> Cardinality(grp(r))] : r \in a}

\* the lifecycle part at rest
LifecycleIdle ==
    /\ day = 0
    /\ tod = 0
    /\ cfg = [alert_flagging_days |-> 1, alert_suppression_days |-> 2,
              alert_retention_weeks |-> 1, num_signals |-> 4]
    /\ files = NoRows
    /\ runs = 0
    /\ raised = NoRows
    /\ flagged = NoRows
    /\ past = NoRows
    /\ reported = NoRows
    /\ before = NoRows
    /\ ranAt = -1
    /\ repeated = FALSE

InitPS ==
    /\ LifecycleIdle
    /\ PhaseSkipIdle
    /\ HistoryIdle
    /\ CusumIdle
    /\ MainIdle
    /\ DailyIdle

\* the controller logs one more event into the staged raw data
StageEvent(e) ==
    /\ ~transformed
    /\ BagCardinality(raw_data) < MaxEvents
    /\ raw_data' = raw_data (+) SetToBag({e})
    /\ UNCHANGED <<phase_waits_out, alert_rows_out, transformed>>
    /\ UNCHANGED <<lcvars, hsvars, csvars, mnvars, dtvars>>

\* transform_phase_skip_raw_data(raw_data) on a non-empty DataFrame
transform_phase_skip_raw_data ==
    /\ ~transformed
    /\ raw_data # EmptyBag
    /\ phase_waits_out' = phase_waits_result(raw_data)
    /\ alert_rows_out' = alerts_agg(phase_waits_result(raw_data))
    /\ transformed' = TRUE
    /\ UNCHANGED raw_data
    /\ UNCHANGED <<lcvars, hsvars, csvars, mnvars, dtvars>>

NextPS ==
    \/ \E e \in EventChoices : StageEvent(e)
    \/ transform_phase_skip_raw_data

SpecPS == InitPS /\ [][NextPS]_vars

\* ================================== ATSPMReport.py (phase-skip history folder)
MaxHistRows == 3                   \* alert rows in the folder, over all files

\* configuration values explored (defaults are 14 and 2)
RetentionDaysChoices == {0, 2}
SkipThresholdChoices == {1, 2}

\* the (DeviceId, Phase) pairs of the folder's rows
HistPairs == {<<1, 1>>, <<1, 2>>}

\* the dates in the names of the daily files, on both sides of the cutoff of
\* a load on day 0
FileDates ==
    LET R == CHOOSE n \in RetentionDaysChoices : \A m \in RetentionDaysChoices : m <= n
    IN  (0 - R - 1)..0

\* a PhaseSkipAlertRow, as far as the summary reads it
AlertRow(p, d, n) == [DeviceId |-> p[1], Phase |-> p[2], Date |-> d, TotalSkips |-> n]

\* the subsets of S with at most n elements
RECURSIVE SubsetsUpTo(_, _)
SubsetsUpTo(S, n) ==
    IF n = 0 THEN {{}}
    ELSE LET smaller == SubsetsUpTo(S, n - 1)
         IN  smaller \cup {T \cup {x} : T \in smaller, x \in S}

\* the folders explored: a daily file is named by the date of its run and
\* holds the alert rows of that day and of the day before, one row per
\* (DeviceId, Phase, Date)
FolderChoices ==
    LET inFile(fd) == {<<fd, AlertRow(p, d, n)>> :
                           p \in HistPairs, d \in {fd - 1, fd}, n \in {1, 2}}
        entries == UNION {inFile(fd) : fd \in FileDates}
        oneRowPerDay(E) ==
            \A x, y \in E :
                (/\ x[1] = y[1]
                 /\ x[2].DeviceId = y[2].DeviceId
                 /\ x[2].Phase = y[2].Phase
                 /\ x[2].Date = y[2].Date) => x = y
    IN  {[fd \in {x[1] : x \in E} |-> SetToBag({x[2] : x \in {y \in E : y[1] = fd}})]
            : E \in {T \in SubsetsUpTo(entries, MaxHistRows) : oneRowPerDay(T)}}

\* mutant of pruned_folder: the file dated at the cutoff is unlinked too
pruned_folder_at_cutoff(fold, retention_days, today) ==
    IF retention_days > 0
    THEN [fd \in {x \in DOMAIN fold : ~(x <= today - retention_days)} |-> fold[fd]]
    ELSE fold

\* the files left by the pruning loop of load_phase_skip_history: with
\* retention_days > 0 the files dated before today - retention_days are
\* unlinked, otherwise no file is
pruned_folder(fold, retention_days, today) ==
    IF retention_days > 0
    THEN [fd \in {x \in DOMAIN fold : ~(x < today - retention_days)} |-> fold[fd]]
    ELSE fold

\* pd.concat(frames): the rows of all files of a folder
RECURSIVE concat_frames(_)
concat_frames(fold) ==
    IF DOMAIN fold = {} THEN EmptyBag
    ELSE LET fd == CHOOSE x \in DOMAIN fold : TRUE
         IN  fold[fd] (+) concat_frames([x \in DOMAIN fold \ {fd} |-> fold[x]])

\* load_phase_skip_history: what it returns
load_phase_skip_history(fold, retention_days, today) ==
    concat_frames(pruned_folder(fold, retention_days, today))

\* sum of TotalSkips over a set of distinct rows of the bag B
RECURSIVE sum_TotalSkips(_, _)
sum_TotalSkips(B, rows) ==
    IF rows = {} THEN 0
    ELSE LET r == CHOOSE x \in rows : TRUE
         IN  r.TotalSkips * CopiesIn(r, B) + sum_TotalSkips(B, rows \ {r})

\* grouped: groupby(['DeviceId', 'Phase']) with AggregatedSkips = sum of
\* TotalSkips and LatestDate = max of Date
grouped(alert_rows_all) ==
    LET grp(r) == {x \in Rows(alert_rows_all) : x.DeviceId = r.DeviceId /\ x.Phase = r.Phase}
    IN  {[DeviceId        |-> r.DeviceId,
          Phase           |-> r.Phase,
          AggregatedSkips |-> sum_TotalSkips(alert_rows_all, grp(r)),
          LatestDate      |-> CHOOSE d \in {x.Date : x \in grp(r)} :
                                  \A x \in grp(r) : x.Date <= d]
            : r \in Rows(alert_rows_all)}

\* alerts: grouped[AggregatedSkips > threshold], LatestDate renamed to Date
alert_candidates(summary, threshold) ==
    {[DeviceId |-> g.DeviceId, Phase |-> g.Phase, Date |-> g.LatestDate,
      AggregatedSkips |-> g.AggregatedSkips]
        : g \in {x \in summary : x.AggregatedSkips > threshold}}

InitHist ==
    /\ LifecycleIdle
    /\ PhaseSkipIdle
    /\ CusumIdle
    /\ MainIdle
    /\ DailyIdle
    /\ hist_cfg \in [phase_skip_retention_days  : RetentionDaysChoices,
                     phase_skip_alert_threshold : SkipThresholdChoices]
    /\ folder \in FolderChoices
    /\ folder_before = folder
    /\ phase_skip_all_rows = EmptyBag
    /\ phase_skip_summary = {}
    /\ phase_skip_alert_candidates = {}
    /\ hist_loaded = FALSE

\* main: load_phase_skip_history, then summarize_phase_skip_alerts
LoadPhaseSkipHistory ==
    /\ ~hist_loaded
    /\ folder' = pruned_folder(folder, hist_cfg.phase_skip_retention_days, day)
    /\ phase_skip_all_rows' =
           load_phase_skip_history(folder, hist_cfg.phase_skip_retention_days, day)
    /\ phase_skip_summary' = grouped(phase_skip_all_rows')
    /\ phase_skip_alert_candidates' =
           alert_candidates(phase_skip_summary', hist_cfg.phase_skip_alert_threshold)
    /\ hist_loaded' = TRUE
    /\ UNCHANGED <<hist_cfg, folder_before>>
    /\ UNCHANGED <<lcvars, psvars, csvars, mnvars, dtvars>>

NextHist == LoadPhaseSkipHistory

SpecHist == InitHist /\ [][NextHist]_vars

\* ======================================= data_processing.py (cusum and alert)
\* Fractions (Percent MaxOut, PercentAnomalous, MissingData, their mean,
\* standard deviation, CUSUM and z-score) are fixed-point numbers with four
\* decimals, rounded down where a column is computed.
HistoryDays == 26                  \* days of the loaded window
Unit == 100 * 100                  \* 1.0 in fixed point, four decimals
k_value == 1                       \* main: cusum(..., k_value=1)
forgetfulness == 2                 \* cusum(df, k_value=0.5, forgetfulness=2)
WindowDays == 6                    \* preceding=ibis.interval(days=6)
LiveDays == 6                      \* days_from_max <= 6

\* n / d as a fixed-point number
Fixed(n, d) == (n * Unit) \div d

MetricFamilies == {"maxout", "actuations", "missing_data"}

\* sum of the values of a function with a finite domain
RECURSIVE SumOver(_)
SumOver(fn) ==
    IF DOMAIN fn = {} THEN 0
    ELSE LET x == CHOOSE y \in DOMAIN fn : TRUE
         IN  fn[x] + SumOver([y \in DOMAIN fn \ {x} |-> fn[y]])

\* the largest r in lo..hi with r * r <= v
RECURSIVE floor_sqrt_between(_, _, _)
floor_sqrt_between(v, lo, hi) ==
    IF lo >= hi THEN lo
    ELSE LET mid == (lo + hi + 1) \div 2
         IN  IF mid * mid <= v
             THEN floor_sqrt_between(v, mid, hi)
             ELSE floor_sqrt_between(v, lo, mid - 1)

floor_sqrt(v) == floor_sqrt_between(v, 0, Unit * 4)

\* one daily observation of an EntityKey (Services only in the maxout family)
Observation(k, d, v, sv) == [key |-> k, Date |-> d, Value |-> v, Services |-> sv]

\* the daily series explored for one key: observations on the days 0..last
\* but for the days in gaps, of value spike on the days in spikes and of
\* value base elsewhere
Series(k, base, spike, spikes, gaps, last, sv) ==
    {Observation(k, d, IF d \in spikes THEN spike ELSE base, sv) : d \in (0..last) \ gaps}

ServicesChoices(fam) == IF fam = "maxout" THEN {NotNull(30), NotNull(50)} ELSE {NULL}

\* the tables explored: key 1 with any series (one, two or three spikes early
\* or at the end, days without data, a series that ends a week early, a
\* constant series, a single observation), key 2 absent, constant, or with one
\* spike on the last day
SeriesOfKey1(fam) ==
    LET lasts == {HistoryDays - 1, HistoryDays - 8}
        shaped(last) ==
            {Series(1, base, spike, spikes, gaps, last, sv) :
                base \in {Fixed(0, 100), Fixed(10, 100)},
                spike \in {Fixed(19, 100), Fixed(95, 100)},
                spikes \in SUBSET {5, last - 2, last - 1, last},
                gaps \in {{}, {last - 4, last - 3}},
                sv \in ServicesChoices(fam)}
    IN  UNION {shaped(last) : last \in lasts}
            \cup {{Observation(1, HistoryDays - 1, Fixed(95, 100), sv)} : sv \in ServicesChoices(fam)}

SeriesOfKey2(fam) ==
    LET sv == CHOOSE x \in ServicesChoices(fam) : x = NULL \/ x = NotNull(50)
        last == HistoryDays - 1
    IN  {{},
         Series(2, Fixed(10, 100), Fixed(10, 100), {}, {}, last, sv),
         Series(2, Fixed(95, 100), Fixed(95, 100), {}, {}, last, sv),
         Series(2, Fixed(10, 100), Fixed(95, 100), {last}, {}, last, sv)}

\* group_metrics of one key: _MinDate, _MaxDate, _Average and _StdDev (the
\* sample standard deviation, NULL for a single observation)
group_metrics(table, k) ==
    LET g   == {x \in table : x.key = k}
        n   == Cardinality(g)
        avg == SumOver([x \in g |-> x.Value]) \div n
        ss  == SumOver([x \in g |-> (x.Value - avg) * (x.Value - avg)])
    IN  [key     |-> k,
         MinDate |-> CHOOSE d \in {x.Date : x \in g} : \A x \in g : d <= x.Date,
         MaxDate |-> CHOOSE d \in {x.Date : x \in g} : \A x \in g : x.Date <= d,
         Average |-> avg,
         StdDev  |-> IF n < 2 THEN NULL ELSE NotNull(floor_sqrt(ss \div (n - 1)))]

\* joined: table.join(group_metrics, key): every row with the metrics of its key
joined(table) ==
    UNION {{[key |-> r.key, Date |-> r.Date, Value |-> r.Value, Services |-> r.Services,
             MinDate |-> m.MinDate, MaxDate |-> m.MaxDate,
             Average |-> m.Average, StdDev |-> m.StdDev]
               : r \in {x \in table : x.key = m.key}}
           : m \in {group_metrics(table, k) : k \in {x.key : x \in table}}}

\* DateWeight: (Date.delta(_MinDate, 'days') + 1) ** forgetfulness
DateWeight(x) == (x.Date - x.MinDate + 1) ^ forgetfulness

\* mutant of greatest_0: the difference is not clamped
greatest_none(v) == IF v = NULL THEN 0 ELSE ValueOf(v)

\* ibis.greatest(0, v): a NULL argument is ignored
greatest_0(v) == IF v = NULL THEN 0 ELSE IF ValueOf(v) > 0 THEN ValueOf(v) ELSE 0

\* DaySum: greatest(0, value - _Average - k_value * _StdDev) * DateWeight
DaySum(x) ==
    LET diff == IF x.StdDev = NULL THEN NULL
                ELSE NotNull(x.Value - x.Average - k_value * ValueOf(x.StdDev))
    IN  greatest_0(diff) * DateWeight(x)

\* mutant of window: the row and the WindowDays rows before it
window_rows(table, r) ==
    {x \in table :
        /\ x.key = r.key
        /\ x.Date <= r.Date
        /\ Cardinality({y \in table : y.key = r.key /\ x.Date < y.Date /\ y.Date <= r.Date})
               <= WindowDays}

\* window: the rows of the key dated from WindowDays days before the row's
\* Date up to it (group_by the key, order_by Date, a range of days)
window(table, r) ==
    {x \in table : x.key = r.key /\ x.Date >= r.Date - WindowDays /\ x.Date <= r.Date}

\* the CUSUM column: DaySum.sum().over(window) / DateWeightSum * 7
CUSUM(table, r) ==
    LET w == window(table, r)
    IN  (SumOver([x \in w |-> DaySum(x)]) * 7) \div SumOver([x \in w |-> DateWeight(x)])

\* cusum: the joined rows with their CUSUM column
cusum(table) ==
    UNION {{[key |-> r.key, Date |-> r.Date, Value |-> r.Value, Services |-> r.Services,
             MinDate |-> r.MinDate, MaxDate |-> r.MaxDate,
             Average |-> r.Average, StdDev |-> r.StdDev,
             CUSUM |-> CUSUM(j, r)] : r \in j}
           : j \in {joined(table)}}

\* the NaN of 0 / 0: DuckDB orders NaN above every number
NaN == NotNull(Unit * Unit)

\* z_score: (value - _Average) / _StdDev.  NULL for a NULL _StdDev.  A
\* _StdDev of 0 belongs to a key whose values all equal _Average, so the
\* division is 0 / 0: NaN with ieee_floating_point_ops, NULL without
z_score(r) ==
    IF r.StdDev = NULL
    THEN NULL
    ELSE IF ValueOf(r.StdDev) = 0
         THEN (IF ieee_floating_point_ops THEN NaN ELSE NULL)
         ELSE NotNull(((r.Value - r.Average) * Unit) \div ValueOf(r.StdDev))

\* mutant of Alert: no condition on the CUSUM
Alert_no_cusum(fam, r, z) ==
    IF /\ fam = "maxout" => ValueOf(r.Services) > 30
       /\ z # NULL /\ ValueOf(z) > 4 * Unit
       /\ r.Value > (CASE fam = "maxout"     -> Fixed(20, 100)
                       [] fam = "actuations" -> Fixed(15, 100)
                       [] OTHER              -> Fixed(10, 100))
    THEN 1 ELSE 0

\* mutant of Alert: Services >= 30, and no threshold on the value
Alert_loose(fam, r, z) ==
    IF /\ r.CUSUM > Fixed(25, 100)
       /\ fam = "maxout" => ValueOf(r.Services) >= 30
       /\ z # NULL /\ ValueOf(z) > 4 * Unit
    THEN 1 ELSE 0

\* Alert: the condition of the family, cast to 0/1
Alert(fam, r, z) ==
    IF /\ r.CUSUM > Fixed(25, 100)
       /\ fam = "maxout" => ValueOf(r.Services) > 30
       /\ z # NULL /\ ValueOf(z) > 4 * Unit
       /\ r.Value > (CASE fam = "maxout"     -> Fixed(20, 100)
                       [] fam = "actuations" -> Fixed(15, 100)
                       [] OTHER              -> Fixed(10, 100))
    THEN 1 ELSE 0

\* days_from_max: Date.delta(_MaxDate, 'days').abs()
days_from_max(r) == IF r.Date >= r.MaxDate THEN r.Date - r.MaxDate ELSE r.MaxDate - r.Date

\* result: every row of the scored table with z_score, Alert, days_from_max
alert_mutate(table, fam) ==
    {[key |-> r.key, Date |-> r.Date, Value |-> r.Value, Services |-> r.Services,
      MinDate |-> r.MinDate, MaxDate |-> r.MaxDate,
      Average |-> r.Average, StdDev |-> r.StdDev, CUSUM |-> r.CUSUM,
      z_score |-> z_score(r), Alert |-> Alert(fam, r, z_score(r)),
      days_from_max |-> days_from_max(r)] : r \in table}

\* mutant of alert_pairs: every key with an alert, however old
alert_pairs_any(result) == {r.key : r \in {x \in result : x.Alert = 1}}

\* alert_pairs / alert_devices: the keys with an alert within the last week
\* of their own _MaxDate
alert_pairs(result) ==
    {r.key : r \in {x \in result : x.Alert = 1 /\ x.days_from_max <= LiveDays}}

\* alert: result.semi_join(alert_pairs): all rows of the keys in alert_pairs
alert(table, fam) ==
    LET result == alert_mutate(table, fam)
    IN  {r \in result : r.key \in alert_pairs(result)}

InitCusum ==
    /\ LifecycleIdle
    /\ PhaseSkipIdle
    /\ HistoryIdle
    /\ MainIdle
    /\ DailyIdle
    /\ metric_family \in MetricFamilies
    /\ ieee_floating_point_ops \in BOOLEAN
    /\ \E s1 \in SeriesOfKey1(metric_family), s2 \in SeriesOfKey2(metric_family) :
           daily_df = s1 \cup s2
    /\ cusum_table = {}
    /\ alert_result = {}
    /\ final_result = {}
    /\ scored = 0

\* main: t = cusum(daily, k_value=1)
RunCusum ==
    /\ scored = 0
    /\ cusum_table' = cusum(daily_df)
    /\ scored' = 1
    /\ UNCHANGED <<metric_family, ieee_floating_point_ops, daily_df, alert_result, final_result>>
    /\ UNCHANGED <<lcvars, psvars, hsvars, mnvars, dtvars>>

\* main: new_alerts = alert(t).execute()
RunAlert ==
    /\ scored = 1
    /\ alert_result' = alert_mutate(cusum_table, metric_family)
    /\ final_result' = alert(cusum_table, metric_family)
    /\ scored' = 2
    /\ UNCHANGED <<metric_family, ieee_floating_point_ops, daily_df, cusum_table>>
    /\ UNCHANGED <<lcvars, psvars, hsvars, mnvars, dtvars>>

NextCusum == RunCusum \/ RunAlert

SpecCusum == InitCusum /\ [][NextCusum]_vars

\* ============================================ main() of ATSPMReport.py, step by step
\* Two runs of main() against the same history files and the same phase-skip
\* folder, each followed from its first line to its return or its exception.
\* The steps of the two runs interleave freely: main takes no lock.  All
\* steps happen at the same datetime.now().

\* the switches explored: file mode, database mode with complete and with
\* incomplete connection parameters, with and without signals_query, history
\* switched off, reports sent by email
RequiredParams == {"server", "database", "username"}

OptChoices ==
    LET base == [use_parquet |-> TRUE, connection_params |-> {}, signals_query |-> FALSE,
                 use_past_alerts |-> TRUE, should_email_reports |-> FALSE]
        db(params, query) == [base EXCEPT !.use_parquet = FALSE,
                                          !.connection_params = params,
                                          !.signals_query = query]
    IN  {base,
         [base EXCEPT !.use_past_alerts = FALSE],
         [base EXCEPT !.should_email_reports = TRUE],
         db(RequiredParams, TRUE),
         db(RequiredParams, FALSE),
         db({"server", "database"}, TRUE),
         db({}, TRUE)}

\* the alert types whose history file may be unreadable or unwritable
FaultTypes == {"maxout", "phase_skips"}

\* the stored histories the runs start from: no file yet, or a record of
\* key 1 of the day before in every file
StoredChoices == {NoRows, [t \in AlertTypes |-> SetToBag({Row(1, 0 - 1)})]}

\* the alert rows a run can raise: any of the two keys, dated today
StepBatches(today) == {SetToBag(S) : S \in SUBSET {Row(k, today) : k \in Keys}}

\* the phase-skip folder the runs find: a file older than the retention and
\* a file of today
StepFolder ==
    [fd \in {0 - 3, 0} |-> SetToBag({AlertRow(<<1, 1>>, fd, 2)})]

\* the steps of the types that come before position i in TypeOrder
TypesBefore(i) == {TypeOrder[j] : j \in 1..(i - 1)}

\* position of the first unreadable file in the order of load_past_alerts,
\* Len(TypeOrder) + 1 if every file can be read
first_corrupt(bad) ==
    IF \E j \in 1..Len(TypeOrder) : TypeOrder[j] \in bad
    THEN CHOOSE j \in 1..Len(TypeOrder) :
             /\ TypeOrder[j] \in bad
             /\ \A m \in 1..(j - 1) : TypeOrder[m] \notin bad
    ELSE Len(TypeOrder) + 1

InitMain ==
    /\ PhaseSkipIdle
    /\ CusumIdle
    /\ DailyIdle
    /\ day = 0
    /\ tod = 0
    /\ cfg \in [alert_flagging_days    : {1},
                alert_suppression_days : {2},
                alert_retention_weeks  : RetentionWeeksChoices,
                num_signals            : NumSignalsChoices]
    /\ files \in StoredChoices
    /\ runs = 0
    /\ raised = NoRows
    /\ flagged = NoRows
    /\ past = NoRows
    /\ reported = NoRows
    /\ before = NoRows
    /\ ranAt = -1
    /\ repeated = FALSE
    /\ hist_cfg = [phase_skip_retention_days |-> 2, phase_skip_alert_threshold |-> 1]
    /\ folder = StepFolder
    /\ folder_before = StepFolder
    /\ phase_skip_all_rows = EmptyBag
    /\ phase_skip_summary = {}
    /\ phase_skip_alert_candidates = {}
    /\ hist_loaded = FALSE
    /\ opts \in OptChoices
    /\ \E bad \in {{}} \cup {{t} : t \in FaultTypes} :
           \/ corrupt = bad /\ unwritable = {}
           \/ corrupt = {} /\ unwritable = bad
    /\ pc = [p \in Procs |-> "validate"]
    /\ run = [p \in Procs |-> NotStarted]

\* what a step of main leaves alone
MainFrame ==
    /\ UNCHANGED <<day, tod, cfg, runs, raised, flagged, past, reported, before, ranAt, repeated>>
    /\ UNCHANGED <<hist_cfg, folder_before, phase_skip_all_rows, phase_skip_summary,
                   phase_skip_alert_candidates, hist_loaded>>
    /\ UNCHANGED <<psvars, csvars, opts, unwritable, dtvars>>

\* an exception leaves main: nothing after the raising line is executed
Raise(p, what) ==
    /\ pc' = [pc EXCEPT ![p] = "raised"]
    /\ run' = [run EXCEPT ![p].exception = what]

\* the runs other than p that have returned or raised
EndedBefore(p) == {o \in Procs \ {p} : pc[o] \in {"returned", "raised"}}

\* mutant of Validate's condition: only the presence of connection_params is
\* checked, not its keys
connection_params_complete_any(params) == params # {}

\* connection_params and all(k in connection_params for k in [...])
connection_params_complete(params) == params # {} /\ RequiredParams \subseteq params

\* main, lines 291-322: load the configuration and validate it
Validate(p) ==
    /\ pc[p] = "validate"
    /\ IF ~opts.use_parquet /\ ~connection_params_complete(opts.connection_params)
       THEN Raise(p, "connection_params")
       ELSE IF ~opts.use_parquet /\ ~opts.signals_query
            THEN Raise(p, "signals_query")
            ELSE /\ pc' = [pc EXCEPT ![p] = "get_data"]
                 /\ run' = [run EXCEPT ![p].after = EndedBefore(p)]
    /\ UNCHANGED <<files, folder, corrupt>>
    /\ MainFrame

\* main, lines 326-338: get_data; main returns None when a frame is None
GetData(p) ==
    /\ pc[p] = "get_data"
    /\ \E got \in BOOLEAN :
           IF got
           THEN /\ pc' = [pc EXCEPT ![p] = "phase_skip_history"]
                /\ run' = [run EXCEPT ![p].data_read = TRUE]
           ELSE /\ pc' = [pc EXCEPT ![p] = "returned"]
                /\ run' = [run EXCEPT ![p].data_read = TRUE, ![p].report_result = "None"]
    /\ UNCHANGED <<files, folder, corrupt>>
    /\ MainFrame

\* main, lines 340-345: load_phase_skip_history prunes the folder
PhaseSkipHistory(p) ==
    /\ pc[p] = "phase_skip_history"
    /\ folder' = pruned_folder(folder, hist_cfg.phase_skip_retention_days, day)
    /\ pc' = [pc EXCEPT ![p] = "score"]
    /\ run' = [run EXCEPT ![p].pruned = TRUE]
    /\ UNCHANGED <<files, corrupt>>
    /\ MainFrame

\* the families processed in lines 347-413, in the order of the calls
Families == {"maxout", "actuations", "missing_data", "pedestrian"}

\* main, lines 347-434: process_*_data, process_ped, cusum and alert of the
\* families one after the other, none inside a try; then the date filter.
\* failing names the family whose processing raises, "none" if none does.
Score(p, batch, failing) ==
    /\ pc[p] = "score"
    /\ IF failing # "none"
       THEN Raise(p, failing)
       ELSE LET new == [t \in AlertTypes |-> batch]
            IN  /\ pc' = [pc EXCEPT ![p] = "load_past_alerts"]
                /\ run' = [run EXCEPT
                       ![p].new_alerts = new,
                       ![p].recent_new_alerts =
                           [t \in AlertTypes |->
                               recent_new_alerts(t, new[t], cfg.alert_flagging_days, Now)]]
    /\ UNCHANGED <<files, folder, corrupt>>
    /\ MainFrame

\* main, lines 454-512: load_past_alerts reads the file of every type in
\* turn (an unreadable file raises out of duckdb.query, main logs and
\* re-raises), then suppress_alerts per type
LoadAndSuppress(p) ==
    LET c == first_corrupt(corrupt)
    IN  IF c <= Len(TypeOrder)
        THEN /\ pc' = [pc EXCEPT ![p] = "raised"]
             /\ run' = [run EXCEPT ![p].exception = "load_past_alerts",
                                   ![p].read = TypesBefore(c + 1),
                                   ![p].before = files]
        ELSE LET loaded == [t \in AlertTypes |->
                               load_past_alerts(files[t], t, cfg.num_signals)]
             IN  /\ pc' = [pc EXCEPT ![p] = "report"]
                 /\ run' = [run EXCEPT
                        ![p].read = AlertTypes,
                        ![p].before = files,
                        ![p].past_alerts = loaded,
                        ![p].final_alerts =
                            [t \in AlertTypes |->
                                suppress_alerts(run[p].recent_new_alerts[t], loaded[t],
                                                cfg.alert_suppression_days, Now)]]

\* mutant of SkipSuppression: the switch is ignored
SkipSuppression_ignored(p) == LoadAndSuppress(p)

\* main, lines 513-520: without use_past_alerts the final alerts are the
\* recent new alerts and no file is looked at
SkipSuppression(p) ==
    /\ pc' = [pc EXCEPT ![p] = "report"]
    /\ run' = [run EXCEPT ![p].final_alerts = run[p].recent_new_alerts,
                          ![p].before = files]

\* main, lines 452-520
LoadPastAlerts(p) ==
    /\ pc[p] = "load_past_alerts"
    /\ IF opts.use_past_alerts THEN LoadAndSuppress(p) ELSE SkipSuppression(p)
    /\ UNCHANGED <<files, folder, corrupt>>
    /\ MainFrame

\* what can be wrong when the reports are to be sent
EmailConditions == {"ok", "no_recipients_file", "region_without_recipient", "send_raises"}

\* email_reports: False without emails.csv or without recipients, False when
\* a region has no recipient or when sending raises (the exception is caught
\* inside), True otherwise
email_reports(condition) == IF condition = "ok" THEN "True" ELSE "False"

\* mutant of Report: the histories are written before the plots are made,
\* so that a failing plot leaves them updated
Report_saved_first(p, fails, condition) ==
    /\ pc[p] = "report"
    /\ fails
    /\ opts.use_past_alerts
    /\ files' = [t \in AlertTypes |->
                     update_and_save_alerts(run[p].recent_new_alerts[t], run[p].past_alerts[t],
                                            cfg.alert_retention_weeks, Now)]
    /\ pc' = [pc EXCEPT ![p] = "raised"]
    /\ run' = [run EXCEPT ![p].exception = "report", ![p].written = AlertTypes]
    /\ UNCHANGED <<folder, corrupt>>
    /\ MainFrame

\* main, lines 541-635: plots, then generate_pdf_report, then (email mode)
\* email_reports, whose result is logged and put into report_result;
\* plotting or report generation may raise
Report(p, fails, condition) ==
    /\ pc[p] = "report"
    /\ IF fails
       THEN Raise(p, "report")
       ELSE LET success == IF opts.should_email_reports THEN email_reports(condition)
                           ELSE "unset"
            IN  /\ pc' = [pc EXCEPT ![p] =
                             IF opts.use_past_alerts THEN "update_and_save_alerts"
                             ELSE "returned"]
                /\ run' = [run EXCEPT ![p].plotted = TRUE,
                                      ![p].success = success,
                                      ![p].report_result =
                                          IF opts.should_email_reports
                                          THEN "success, report_buffers, region_names"
                                          ELSE "pdf_paths"]
    /\ UNCHANGED <<files, folder, corrupt>>
    /\ MainFrame

\* main, lines 637-697: update_and_save_alerts for the next type in turn,
\* none inside a try: a failing write raises out of main; after the last
\* type main returns report_result
UpdateAndSave(p) ==
    /\ pc[p] = "update_and_save_alerts"
    /\ LET t == TypeOrder[run[p].i]
       IN  IF t \in unwritable
           THEN /\ Raise(p, "update_and_save_alerts")
                /\ UNCHANGED <<files, corrupt>>
           ELSE /\ files' = [files EXCEPT ![t] =
                                update_and_save_alerts(run[p].recent_new_alerts[t],
                                                       run[p].past_alerts[t],
                                                       cfg.alert_retention_weeks, Now)]
                /\ corrupt' = corrupt \ {t}
                /\ run' = [run EXCEPT ![p].written = @ \cup {t}, ![p].i = @ + 1]
                /\ pc' = [pc EXCEPT ![p] =
                             IF run[p].i = Len(TypeOrder) THEN "returned"
                             ELSE "update_and_save_alerts"]
    /\ UNCHANGED folder
    /\ MainFrame

NextMain ==
    \E p \in Procs :
        \/ Validate(p)
        \/ GetData(p)
        \/ PhaseSkipHistory(p)
        \/ \E batch \in StepBatches(day), failing \in {"none"} \cup Families :
               Score(p, batch, failing)
        \/ LoadPastAlerts(p)
        \/ \E fails \in BOOLEAN, condition \in EmailConditions : Report(p, fails, condition)
        \/ UpdateAndSave(p)

SpecMain == InitMain /\ [][NextMain]_vars

\* ============================================ run_report.py: run_daily_tasks
\* The scheduler of run_report.py calls run_daily_tasks at 06:00 on the
\* weekdays, and once at start-up when asked to.  run_daily_tasks tries
\* get_data up to three times and then launches ATSPMReport.py.  get_data
\* runs five queries and writes each result to its raw data file before the
\* next query; a failing query or write raises an Exception out of get_data
\* and leaves the files of the earlier queries written.  The counters and
\* the file marks describe the current call of run_daily_tasks.

\* for try_count in range(3)
range_3 == 3

\* time.sleep(30)
retry_wait == 30

\* what a failed query or write leaves of the file it was about to write
FailedWrites == {"untouched", "truncated"}

InitDaily ==
    /\ LifecycleIdle
    /\ PhaseSkipIdle
    /\ HistoryIdle
    /\ CusumIdle
    /\ MainIdle
    /\ weekday \in 0..6
    /\ dpc = "waiting"
    /\ try_count = 0
    /\ step = 1
    /\ raw_files = [f \in 1..Len(RawFiles) |-> 0]
    /\ attempts = << >>
    /\ slept = 0
    /\ launched = 0

DailyFrame == UNCHANGED <<lcvars, psvars, hsvars, csvars, mnvars>>

\* the scheduler: a new day begins; on Monday to Friday the job of 06:00
\* calls run_daily_tasks, whose locals start afresh
run_pending ==
    /\ dpc = "waiting"
    /\ weekday' = (weekday + 1) % 7
    /\ dpc' = IF weekday' <= 4 THEN "for" ELSE "waiting"
    /\ try_count' = 0
    /\ step' = 1
    /\ raw_files' = [f \in 1..Len(RawFiles) |-> 0]
    /\ attempts' = << >>
    /\ slept' = 0
    /\ launched' = 0
    /\ DailyFrame

\* "Run now? (y/n)" answered with y: run_daily_tasks is called at once
run_now ==
    /\ dpc = "waiting"
    /\ attempts = << >>
    /\ launched = 0
    /\ dpc' = "for"
    /\ UNCHANGED <<weekday, try_count, step, raw_files, attempts, slept, launched>>
    /\ DailyFrame

\* run_daily_tasks, lines 123-126: the loop takes its next value and calls
\* get_data; with the range used up the loop ends
for_try_count ==
    /\ dpc = "for"
    /\ IF try_count < range_3
       THEN /\ dpc' = "get_data"
            /\ step' = 1
            /\ attempts' = Append(attempts, "running")
       ELSE /\ dpc' = "subprocess.run"
            /\ UNCHANGED <<step, attempts>>
    /\ UNCHANGED <<weekday, try_count, raw_files, slept, launched>>
    /\ DailyFrame

\* get_data, lines 72-114: one query and its to_parquet.  After the fifth
\* get_data returns and the loop is left by break (line 127); a failure
\* raises, which the except clause of line 128 catches
get_data(ok, left) ==
    /\ dpc = "get_data"
    /\ IF ok
       THEN /\ raw_files' = [raw_files EXCEPT ![step] = try_count + 1]
            /\ IF step = Len(RawFiles)
               THEN /\ dpc' = "subprocess.run"
                    /\ attempts' = [attempts EXCEPT ![Len(attempts)] = "ok"]
                    /\ step' = step
               ELSE /\ step' = step + 1
                    /\ UNCHANGED <<dpc, attempts>>
       ELSE /\ raw_files' = IF left = "truncated"
                            THEN [raw_files EXCEPT ![step] = -1]
                            ELSE raw_files
            /\ dpc' = "except"
            /\ attempts' = [attempts EXCEPT ![Len(attempts)] = "failed"]
            /\ step' = step
    /\ UNCHANGED <<weekday, try_count, slept, launched>>
    /\ DailyFrame

\* mutant of except_sleep: after the last failed attempt the function
\* returns without launching the report
except_sleep_gives_up ==
    /\ dpc = "except"
    /\ slept' = slept + retry_wait
    /\ try_count' = try_count + 1
    /\ dpc' = IF try_count + 1 < range_3 THEN "for" ELSE "waiting"
    /\ UNCHANGED <<weekday, step, raw_files, attempts, launched>>
    /\ DailyFrame

\* run_daily_tasks, lines 128-131: the failure is printed, time.sleep(30),
\* and the loop goes on with its next value (the try_count += 1 of line 130
\* is overwritten by the for statement, which yields the same number)
except_sleep ==
    /\ dpc = "except"
    /\ slept' = slept + retry_wait
    /\ try_count' = try_count + 1
    /\ dpc' = "for"
    /\ UNCHANGED <<weekday, step, raw_files, attempts, launched>>
    /\ DailyFrame

\* run_daily_tasks, lines 133-134: subprocess.run of ATSPMReport.py, after
\* which run_daily_tasks returns to the scheduler
subprocess_run ==
    /\ dpc = "subprocess.run"
    /\ launched' = launched + 1
    /\ dpc' = "waiting"
    /\ UNCHANGED <<weekday, try_count, step, raw_files, attempts, slept>>
    /\ DailyFrame

NextDaily ==
    \/ run_pending
    \/ run_now
    \/ for_try_count
    \/ \E ok \in BOOLEAN, left \in FailedWrites : get_data(ok, left)
    \/ except_sleep
    \/ subprocess_run

SpecDaily == InitDaily /\ [][NextDaily]_vars

\* =================================================================== claims
\* Helpers of the claims below.  They speak about the last completed run.
HasRun == runs >= 1

\* the calendar day on which the last run took place ("today")
RanDay == ranAt \div TicksPerDay

\* d of "Date = today - d": whole days between a row's Date and today
DaysAgo(r) == RanDay - r.Date

\* a row's Date is inside the retention window of the last run
\* (with alert_retention_weeks <= 0 nothing is ever outside it)
InRetentionWindow(r) ==
    \/ cfg.alert_retention_weeks <= 0
    \/ to_datetime(r.Date) >= ranAt - timedelta_weeks(cfg.alert_retention_weeks)

\* a row's Date is within the last alert_flagging_days of 'now'
InFlaggingWindow(r) ==
    to_datetime(r.Date) >= ranAt - timedelta_days(cfg.alert_flagging_days)

\* a past record that silences its key in the last run
InSuppressionWindow(p) ==
    to_datetime(p.Date) >= ranAt - timedelta_days(cfg.alert_suppression_days)

KeyRows(B, k) == {r \in Rows(B) : r.key = k}

\* C1: after a run the stored history of every alert type holds every
\* (key, Date) pair of the run's Flagged batch that lies inside the retention
\* window, suppressed keys included, together with the records that were
\* stored before the run (inside the retention window).
C1_FlaggedAndOldPersisted ==
    HasRun =>
        \A t \in AlertTypes :
            \A r \in Rows(flagged[t]) \cup Rows(before[t]) :
                InRetentionWindow(r) => r \in Rows(files[t])

\* C2: suppression monotonicity.  A key with a history record dated
\* today - d, d < alert_suppression_days, has no row in Reported; a key whose
\* most recent record has d >= alert_suppression_days has all its Flagged
\* rows in Reported; at any time of day.
C2_SuppressionMonotone ==
    HasRun =>
        \A t \in AlertTypes : \A k \in Keys :
            LET recs == KeyRows(past[t], k)
            IN  /\ (\E p \in recs : DaysAgo(p) < cfg.alert_suppression_days)
                      => KeyRows(reported[t], k) = {}
                /\ (recs # {} /\ \A p \in recs : DaysAgo(p) >= cfg.alert_suppression_days)
                      => \A r \in KeyRows(flagged[t], k) :
                             CopiesIn(r, reported[t]) = CopiesIn(r, flagged[t])

\* C3: suppression is decided per EntityKey: Reported is exactly the Flagged
\* rows whose key has no history record dated inside the suppression window;
\* one such record removes every Flagged row of the key whatever its Date,
\* the rows of the other keys are returned as they are, once each.
C3_SuppressionPerKey ==
    HasRun =>
        \A t \in AlertTypes :
            /\ Rows(reported[t]) \subseteq Rows(flagged[t])
            /\ \A r \in Rows(flagged[t]) :
                   LET hit == \E p \in Rows(past[t]) :
                                  p.key = r.key /\ InSuppressionWindow(p)
                   IN  CopiesIn(r, reported[t]) = IF hit THEN 0 ELSE CopiesIn(r, flagged[t])

\* C3 witness: one recent record of a key removed two Flagged rows of that
\* key with other Dates, while a row of another key was reported.
C3_Witness ==
    /\ HasRun
    /\ \E p \in Rows(past["maxout"]) :
           /\ InSuppressionWindow(p)
           /\ \E r1, r2 \in KeyRows(flagged["maxout"], p.key) :
                  r1.Date # r2.Date /\ r1.Date # p.Date /\ r2.Date # p.Date
    /\ reported["maxout"] = EmptyBag

\* C4: after any update_and_save_alerts call the stored history holds no two
\* records with the same id-column values and the same Date.
C4_NoDuplicateRecords ==
    HasRun => \A t \in AlertTypes : \A r \in Rows(files[t]) : CopiesIn(r, files[t]) = 1

\* C4 witness: a run merged a Flagged row that the loaded history already held.
C4_Witness ==
    /\ HasRun
    /\ \E r \in Rows(flagged["maxout"]) :
           r \in Rows(past["maxout"]) /\ r \in Rows(files["maxout"])

\* C5: merge idempotence.  Merging the Flagged batch of the last run once
\* more, into the history that run wrote and at the same 'now', writes the
\* same history.
C5_MergeIdempotent ==
    (HasRun /\ Now = ranAt) =>
        \A t \in AlertTypes :
            update_and_save_alerts(flagged[t], files[t], cfg.alert_retention_weeks, Now)
                = files[t]

\* C5 witness: the batch merged a second time is not empty and is stored.
C5_Witness ==
    /\ HasRun
    /\ Now = ranAt
    /\ flagged["maxout"] # EmptyBag
    /\ Rows(flagged["maxout"]) \subseteq Rows(files["maxout"])
    /\ past["maxout"] # EmptyBag

\* C6 as stated: after any update no stored record is older than
\* alert_retention_weeks weeks before 'now', and a record dated exactly at
\* that boundary is retained.
C6_RetentionBoundary ==
    HasRun =>
        \A t \in AlertTypes :
            /\ \A r \in Rows(files[t]) :
                   to_datetime(r.Date) >= ranAt - timedelta_weeks(cfg.alert_retention_weeks)
            /\ \A r \in Rows(past[t]) \cup Rows(flagged[t]) :
                   to_datetime(r.Date) = ranAt - timedelta_weeks(cfg.alert_retention_weeks)
                       => r \in Rows(files[t])

\* C6 amended: the same, for alert_retention_weeks > 0 (with a value <= 0 the
\* code keeps every record).
C6_RetentionBoundaryPositiveWeeks ==
    (HasRun /\ cfg.alert_retention_weeks > 0) => C6_RetentionBoundary

\* C6 witness: a run dropped a record older than the boundary and kept one
\* dated exactly at the boundary.
C6_Witness ==
    /\ HasRun
    /\ cfg.alert_retention_weeks > 0
    /\ \E r \in Rows(past["system_outages"]) :
           /\ to_datetime(r.Date) = ranAt - timedelta_weeks(cfg.alert_retention_weeks)
           /\ r \in Rows(files["system_outages"])
    /\ \E r \in Rows(past["system_outages"]) :
           /\ to_datetime(r.Date) < ranAt - timedelta_weeks(cfg.alert_retention_weeks)
           /\ r \notin Rows(files["system_outages"])

\* C7: append-only with retention, for every alert type: a record that was in
\* the stored file before a run and is inside the retention window is still
\* stored after the run.
C7_AppendOnlyWithRetention ==
    HasRun =>
        \A t \in AlertTypes :
            \A r \in Rows(before[t]) : InRetentionWindow(r) => r \in Rows(files[t])

\* C8: a run repeated at once on the same data, with the history the first
\* run wrote, reports nothing for any alert type.
C8_RepeatedRunReportsNothing ==
    repeated => \A t \in AlertTypes : reported[t] = EmptyBag

\* C9: for every alert type the rows handed to suppression, reported and
\* merged into the history are dated within the last alert_flagging_days.
C9_FlaggedWithinFlaggingDays ==
    HasRun =>
        \A t \in AlertTypes :
            /\ \A r \in Rows(flagged[t]) \cup Rows(reported[t]) : InFlaggingWindow(r)
            /\ \A r \in Rows(files[t]) : r \notin Rows(before[t]) => InFlaggingWindow(r)

\* ------------------------------------------------------- phase-skip claims
IsWaitEvent(e) == e.eventid >= 612 /\ e.eventid <= 627

\* the per-device MaxCycleLength of the claims: the largest 132 sample, if any
HasCycleSample(d) == \E e \in Rows(raw_data) : e.eventid = 132 /\ e.deviceid = d
MaxCycleLengthOf(d) ==
    CHOOSE m \in {e.parameter : e \in {x \in Rows(raw_data) : x.eventid = 132 /\ x.deviceid = d}} :
        \A e \in Rows(raw_data) : (e.eventid = 132 /\ e.deviceid = d) => e.parameter <= m

\* ceil(1.5 * m): the least whole number n with 2n >= 3m
CeilOneAndAHalf(m) == CHOOSE n \in 0..(2 * m) : 2 * n >= 3 * m /\ 2 * (n - 1) < 3 * m

\* extension of the exclusion windows of a device
Extension(d) ==
    IF HasCycleSample(d) /\ MaxCycleLengthOf(d) > 0
    THEN CeilOneAndAHalf(MaxCycleLengthOf(d))
    ELSE 180

\* the wait event lies inside [StartTime, EndTime + extension) of a
\* PreemptInterval of its device
InExclusionWindow(e) ==
    \E i \in valid_preempt_intervals(raw_data) :
        /\ i.deviceid = e.deviceid
        /\ i.start_time <= e.timestamp
        /\ e.timestamp < ValueOf(i.end_time) + Extension(e.deviceid)

\* the distinct wait events of a (device, phase, day) outside every window
WaitsOutside(d, ph, dt) ==
    {e \in Rows(raw_data) :
        /\ IsWaitEvent(e)
        /\ e.deviceid = d /\ e.eventid - 611 = ph /\ e.timestamp \div SecondsPerDay = dt
        /\ ~InExclusionWindow(e)}

\* C10: preempt exclusion.  A wait event inside an exclusion window of its
\* device is flagged preempted and is not counted in any alert row, whatever
\* its wait: every alert row counts at most the wait events of its device,
\* phase and day that lie outside every window, and its MaxWaitTime is the
\* wait of one of those.
C10_PreemptedWaitsNotCounted ==
    transformed =>
        /\ \A e \in Rows(raw_data) :
               (IsWaitEvent(e) /\ InExclusionWindow(e)) =>
                   \A r \in phase_waits_out :
                       (/\ r.DeviceId = e.deviceid
                        /\ r.Timestamp = e.timestamp
                        /\ r.Phase = e.eventid - 611
                        /\ r.PhaseWaitTime = e.parameter) => r.PreemptFlag
        /\ \A a \in alert_rows_out :
               LET out == WaitsOutside(a.DeviceId, a.Phase, a.Date)
               IN  /\ a.TotalSkips <= Cardinality(out)
                   /\ \E e \in out : e.parameter = a.MaxWaitTime

\* C10 witness: with a positive MaxCycleLength, a long wait after the end of
\* the preemption but inside the extended window is left out, while a wait
\* of the same phase after the window is counted.
C10_Witness ==
    /\ transformed
    /\ HasCycleSample(1) /\ MaxCycleLengthOf(1) > 0
    /\ \E e \in Rows(raw_data) :
           /\ IsWaitEvent(e) /\ InExclusionWindow(e)
           /\ e.parameter > 2 * MaxCycleLengthOf(1)
           /\ \E i \in valid_preempt_intervals(raw_data) :
                  /\ i.deviceid = e.deviceid /\ e.timestamp >= ValueOf(i.end_time)
                  /\ Event(i.deviceid, i.start_time, 102, i.preempt_number) \in Rows(raw_data)
                  /\ Event(i.deviceid, ValueOf(i.end_time), 104, i.preempt_number) \in Rows(raw_data)
           /\ \E a \in alert_rows_out :
                  a.DeviceId = e.deviceid /\ a.Phase = e.eventid - 611 /\ a.TotalSkips = 1

\* the PreemptIntervals of the claims: every preempt start (102) with the
\* next preempt end (104) of the same (DeviceId, PreemptNumber) in the order
\* (time, event id)
PairedIntervals ==
    LET ends(s) == {e \in Rows(raw_data) : /\ e.eventid = 104
                                            /\ e.deviceid = s.deviceid
                                            /\ e.parameter = s.parameter
                                            /\ e.timestamp >= s.timestamp}
        first(s) == CHOOSE t \in {e.timestamp : e \in ends(s)} :
                        \A e \in ends(s) : t <= e.timestamp
    IN  {[deviceid |-> s.deviceid, preempt_number |-> s.parameter,
          start_time |-> s.timestamp, end_time |-> NotNull(first(s))]
            : s \in {x \in Rows(raw_data) : x.eventid = 102 /\ ends(x) # {}}}

\* C11: every interval used to build an exclusion window starts at a preempt
\* start (102) and ends at the next preempt end (104) of the same
\* (DeviceId, PreemptNumber); the time between an end and the next start is
\* never an interval.
C11_IntervalsPairStartWithNextEnd ==
    transformed => valid_preempt_intervals(raw_data) \subseteq PairedIntervals

\* C12 as stated: every exclusion window is at least FREE_SIGNAL_THRESHOLD
\* seconds long, whatever the MaxCycleLength of its device.
C12_WindowAtLeastFloor ==
    transformed =>
        \A w \in preempt_windows(raw_data) :
            w.window_end - w.window_start >= FREE_SIGNAL_THRESHOLD

\* C12 amended: every exclusion window is longer than the extension of its
\* device, which is ceil(1.5 * MaxCycleLength) for a positive MaxCycleLength
\* and 180 otherwise; so it is at least 180 seconds long when MaxCycleLength
\* is absent, not positive, or at least 120.
C12_WindowLongerThanExtension ==
    transformed =>
        \A w \in preempt_windows(raw_data) :
            /\ w.window_end - w.window_start > Extension(w.deviceid)
            /\ (~HasCycleSample(w.deviceid) \/ MaxCycleLengthOf(w.deviceid) <= 0
                    \/ MaxCycleLengthOf(w.deviceid) >= 120)
                  => w.window_end - w.window_start >= FREE_SIGNAL_THRESHOLD

\* C12 witness: a window of a device with a MaxCycleLength of at least 120
\* and a window of a device without any MaxCycleLength sample.
C12_Witness ==
    /\ transformed
    /\ \E w \in preempt_windows(raw_data) :
           /\ HasCycleSample(w.deviceid) /\ MaxCycleLengthOf(w.deviceid) >= 120
           /\ w.window_end - w.window_start > FREE_SIGNAL_THRESHOLD
    /\ \E w \in preempt_windows(raw_data) :
           /\ ~HasCycleSample(w.deviceid)
           /\ w.window_end - w.window_start > FREE_SIGNAL_THRESHOLD

\* the wait event lies inside the exclusion window of a PreemptInterval
InPairedWindow(e) ==
    \E i \in PairedIntervals :
        /\ ValueOf(i.end_time) > i.start_time
        /\ i.deviceid = e.deviceid
        /\ i.start_time <= e.timestamp
        /\ e.timestamp < ValueOf(i.end_time) + Extension(e.deviceid)

\* WaitSeconds strictly greater than 1.5 * MaxCycleLength, or than 180 s when
\* MaxCycleLength is not positive
OverThreshold(e) ==
    IF HasCycleSample(e.deviceid) /\ MaxCycleLengthOf(e.deviceid) > 0
    THEN 2 * e.parameter > 3 * MaxCycleLengthOf(e.deviceid)
    ELSE e.parameter > 180

\* the qualifying wait events of a (device, phase, calendar day)
Qualifying(d, ph, dt) ==
    {e \in Rows(raw_data) :
        /\ IsWaitEvent(e)
        /\ e.deviceid = d /\ e.eventid - 611 = ph /\ e.timestamp \div SecondsPerDay = dt
        /\ ~InPairedWindow(e)
        /\ OverThreshold(e)}

\* C13: ViolationRows has exactly one row per (DeviceId, Phase, calendar day)
\* with a qualifying wait event and none otherwise; TotalSkips is the number
\* of qualifying events and MaxWaitTime their largest wait.
C13_OneRowPerDevicePhaseDay ==
    transformed =>
        \A d \in Devices : \A ph \in 1..16 : \A dt \in 0..1 :
            LET q == Qualifying(d, ph, dt)
                rows == {a \in alert_rows_out :
                            a.DeviceId = d /\ a.Phase = ph /\ a.Date = dt}
            IN  IF q = {} THEN rows = {}
                ELSE /\ Cardinality(rows) = 1
                     /\ \A a \in rows :
                            /\ a.TotalSkips = Cardinality(q)
                            /\ \E e \in q : e.parameter = a.MaxWaitTime
                            /\ \A e \in q : e.parameter <= a.MaxWaitTime

\* ------------------------------------------------- phase-skip history claims
RowsOfPair(B, dev, ph) == {x \in Rows(B) : x.DeviceId = dev /\ x.Phase = ph}

\* the skips of a (DeviceId, Phase) pair with every calendar day counted
\* once: per Date the largest TotalSkips reported for it
RECURSIVE SkipsPerDay(_, _)
SkipsPerDay(rows, dates) ==
    IF dates = {} THEN 0
    ELSE LET d == CHOOSE x \in dates : TRUE
             m == CHOOSE n \in {x.TotalSkips : x \in {y \in rows : y.Date = d}} :
                      \A x \in rows : x.Date = d => x.TotalSkips <= n
         IN  m + SkipsPerDay(rows, dates \ {d})

\* C14: one summary row per (DeviceId, Phase) of the retained history, with
\* AggregatedSkips the sum of TotalSkips and LatestDate the largest Date; a
\* pair is a candidate, dated LatestDate, exactly when AggregatedSkips is
\* over the threshold; and no wait event is counted twice, also when rows of
\* one (DeviceId, Phase, Date) are in more than one daily file.
C14_SummaryCountsEachSkipOnce ==
    hist_loaded =>
        /\ \A p \in HistPairs :
               LET rows == RowsOfPair(phase_skip_all_rows, p[1], p[2])
                   sums == {g \in phase_skip_summary : g.DeviceId = p[1] /\ g.Phase = p[2]}
                   cand == {c \in phase_skip_alert_candidates :
                               c.DeviceId = p[1] /\ c.Phase = p[2]}
               IN  IF rows = {} THEN sums = {} /\ cand = {}
                   ELSE /\ Cardinality(sums) = 1
                        /\ \A g \in sums :
                               /\ g.AggregatedSkips = sum_TotalSkips(phase_skip_all_rows, rows)
                               /\ \E x \in rows : x.Date = g.LatestDate
                               /\ \A x \in rows : x.Date <= g.LatestDate
                               /\ g.AggregatedSkips <= SkipsPerDay(rows, {x.Date : x \in rows})
                               /\ IF g.AggregatedSkips > hist_cfg.phase_skip_alert_threshold
                                  THEN cand = {[DeviceId |-> p[1], Phase |-> p[2],
                                                Date |-> g.LatestDate,
                                                AggregatedSkips |-> g.AggregatedSkips]}
                                  ELSE cand = {}

\* C15 as stated: after the load no file dated before
\* today - phase_skip_retention_days is left in the folder, every file dated
\* on or after that cutoff is still there, unchanged, and the returned
\* history is the concatenation of the files that are left.
C15_PrunedAtLoad ==
    hist_loaded =>
        /\ DOMAIN folder \subseteq DOMAIN folder_before
        /\ \A fd \in DOMAIN folder_before :
               IF fd < day - hist_cfg.phase_skip_retention_days
               THEN fd \notin DOMAIN folder
               ELSE fd \in DOMAIN folder /\ folder[fd] = folder_before[fd]
        /\ phase_skip_all_rows = concat_frames(folder)

\* C15 amended: the same, for phase_skip_retention_days > 0 (with a value
\* <= 0 the load deletes no file).
C15_PrunedAtLoadPositiveDays ==
    hist_cfg.phase_skip_retention_days > 0 => C15_PrunedAtLoad

\* C15 witness: the load deleted a file older than the cutoff, kept one dated
\* exactly at the cutoff and returned its rows.
C15_Witness ==
    /\ hist_loaded
    /\ hist_cfg.phase_skip_retention_days > 0
    /\ \E fd \in DOMAIN folder_before :
           fd < day - hist_cfg.phase_skip_retention_days /\ fd \notin DOMAIN folder
    /\ \E fd \in DOMAIN folder :
           /\ fd = day - hist_cfg.phase_skip_retention_days
           /\ \E r \in Rows(folder[fd]) : r \in Rows(phase_skip_all_rows)

\* ------------------------------------------------- cusum and alert claims
\* GroupBaseline of an EntityKey: MinDate, Mean and sample StdDev (undefined
\* for a single observation) over all its observations
Baseline(k) ==
    LET obs  == {x \in daily_df : x.key = k}
        n    == Cardinality(obs)
        mean == SumOver([x \in obs |-> x.Value]) \div n
        dev2 == SumOver([x \in obs |-> (x.Value - mean) * (x.Value - mean)])
    IN  [key     |-> k,
         MinDate |-> CHOOSE d \in {x.Date : x \in obs} : \A x \in obs : d <= x.Date,
         MaxDate |-> CHOOSE d \in {x.Date : x \in obs} : \A x \in obs : x.Date <= d,
         Mean    |-> mean,
         Defined |-> n >= 2,
         StdDev  |-> IF n >= 2 THEN floor_sqrt(dev2 \div (n - 1)) ELSE 0]

Baselines == {Baseline(k) : k \in {x.key : x \in daily_df}}

\* excess(d) = max(0, Value(d) - Mean - k * StdDev), 0 without a StdDev
Excess(x, b) ==
    IF b.Defined /\ x.Value - b.Mean - k_value * b.StdDev > 0
    THEN x.Value - b.Mean - k_value * b.StdDev
    ELSE 0

\* w(d) = (days between d and the key's MinDate + 1) ^ forgetfulness
Weight(x, b) == (x.Date - b.MinDate + 1) ^ forgetfulness

\* the observations of the key dated in [D - 6 days, D]
TrailingWeek(b, D) == {x \in daily_df : x.key = b.key /\ D - 6 <= x.Date /\ x.Date <= D}

\* 7 * sum(excess * w) / sum(w) over the trailing week
CusumScore(b, D) ==
    LET week == TrailingWeek(b, D)
    IN  (7 * SumOver([x \in week |-> Excess(x, b) * Weight(x, b)]))
            \div SumOver([x \in week |-> Weight(x, b)])

\* C16: cusum returns one row per observation, and its CusumScore is
\* 7 * sum(excess * w) / sum(w) over exactly the rows of the same EntityKey
\* dated in [D - 6 days, D], with the key's own Mean, StdDev and MinDate.
C16_CusumOverCalendarWeek ==
    scored >= 1 =>
        /\ {Observation(r.key, r.Date, r.Value, r.Services) : r \in cusum_table} = daily_df
        /\ Cardinality(cusum_table) = Cardinality(daily_df)
        /\ \A b \in Baselines :
               \A r \in {x \in cusum_table : x.key = b.key} :
                   r.CUSUM = CusumScore(b, r.Date)

\* C16 witness: a key with days without data inside the trailing week of a
\* scored day with a positive score, next to a second key.
C16_Witness ==
    /\ scored >= 1
    /\ \E r \in cusum_table :
           /\ r.CUSUM > 0
           /\ Cardinality({x \in daily_df : x.key = r.key /\ x.Date <= r.Date}) > 7
           /\ Cardinality({x \in daily_df : x.key = r.key /\ r.Date - 6 <= x.Date
                                               /\ x.Date <= r.Date}) < 7
           /\ \E q \in cusum_table : q.key # r.key /\ q.Value # r.Value

\* C17: CusumScore is never negative, and it is 0 when no day of the
\* trailing week is above Mean + k * StdDev.
C17_CusumNonNegative ==
    scored >= 1 =>
        \A b \in Baselines :
            \A r \in {x \in cusum_table : x.key = b.key} :
                /\ r.CUSUM >= 0
                /\ (\A x \in TrailingWeek(b, r.Date) :
                        ~(b.Defined /\ x.Value > b.Mean + k_value * b.StdDev))
                      => r.CUSUM = 0

\* C17 witness: a key with a day above and days below Mean + k * StdDev, one
\* score positive and one score 0.
C17_Witness ==
    /\ scored >= 1
    /\ \E r, q \in cusum_table :
           /\ r.key = q.key
           /\ r.CUSUM > 0
           /\ q.CUSUM = 0
           /\ q.StdDev # NULL /\ q.Value < q.Average

ZScoreOver4(r, b) ==
    /\ b.Defined
    /\ b.StdDev > 0
    /\ ((r.Value - b.Mean) * Unit) \div b.StdDev > 4 * Unit

\* the detection predicate of the family on a scored row
FamilyPredicate(fam, r, b) ==
    /\ r.CUSUM > Fixed(25, 100)
    /\ ZScoreOver4(r, b)
    /\ CASE fam = "maxout"     -> ValueOf(r.Services) > 30 /\ r.Value > Fixed(20, 100)
         [] fam = "actuations" -> r.Value > Fixed(15, 100)
         [] OTHER              -> r.Value > Fixed(10, 100)

\* scenario A: Value 0.95, Mean 0.10, StdDev 0.02, SupportCount 50, and the
\* least CusumScore a day of such a key can have (its excess, once)
ScenarioRow ==
    [key |-> 1, Date |-> 0, Value |-> Fixed(95, 100), Services |-> NotNull(50),
     MinDate |-> 0, MaxDate |-> 0, Average |-> Fixed(10, 100),
     StdDev |-> NotNull(Fixed(2, 100)), CUSUM |-> Fixed(95 - 10 - 2, 100)]

C20_BatchOfLiveKeys ==
    scored = 2 =>
        /\ final_result \subseteq alert_result
        /\ \A b \in Baselines :
               LET rows == {x \in alert_result : x.key = b.key}
                   live == \E r \in rows :
                               /\ r.Alert = 1
                               /\ b.MaxDate - r.Date <= 6
                               /\ r.Date - b.MaxDate <= 6
               IN  {x \in final_result : x.key = b.key} = IF live THEN rows ELSE {}

\* C20 witness: a key whose only flagged day is more than 6 days before its
\* last day is left out, next to a key that is in the batch with its
\* unflagged days.
C20_Witness ==
    /\ scored = 2
    /\ \E r \in alert_result :
           /\ r.Alert = 1
           /\ r.days_from_max > 6
           /\ \A x \in final_result : x.key # r.key
    /\ \E r, q \in final_result : r.key = q.key /\ r.Alert = 1 /\ q.Alert = 0

\* ------------------------------------------------ claims about a run of main
\* the run has come to its end, by a return or by an exception
Ended(p) == pc[p] \in {"returned", "raised"}

\* C21: a missing or unreadable history file of an alert type counts as an
\* empty history: the run is not ended by it, no row of that type is
\* suppressed in the run, and the histories of the other types are loaded.
C21_UnreadableHistoryIsEmpty ==
    \A p \in Procs :
        /\ run[p].exception # "load_past_alerts"
        /\ (opts.use_past_alerts /\ pc[p] \in {"report", "update_and_save_alerts", "returned"})
              => \A t \in AlertTypes :
                     /\ run[p].before[t] = EmptyBag
                           => run[p].final_alerts[t] = run[p].recent_new_alerts[t]
                     /\ run[p].before[t] # EmptyBag /\ t # "missing_data"
                           => run[p].past_alerts[t] = run[p].before[t]

\* C22: a failing write of the history of one alert type does not end the
\* run: main returns the report result, and the histories of the other
\* types are written.
C22_FailedWriteDoesNotBlock ==
    \A p \in Procs :
        (Ended(p) /\ opts.use_past_alerts /\ run[p].report_result \notin {"unset", "None"})
            => /\ pc[p] = "returned"
               /\ AlertTypes \ unwritable \subseteq run[p].written

\* C23: an error raised while one family is processed does not keep the
\* other families from being reported and persisted in the same run.
C23_FamilyIsolation ==
    \A p \in Procs :
        (Ended(p) /\ run[p].exception \in Families)
            => /\ run[p].plotted
               /\ (opts.use_past_alerts /\ unwritable = {})
                     => AlertTypes \ {run[p].exception} \subseteq run[p].written

\* the configuration asks for the database and lacks a connection parameter
\* or the signals query
LacksDatabaseConfig ==
    /\ ~opts.use_parquet
    /\ \/ ~(RequiredParams \subseteq opts.connection_params)
       \/ ~opts.signals_query

\* C24: in database mode without server, database and username or without
\* signals_query, main raises before anything else happens: no data is
\* read, no phase-skip file is pruned, no alert history is read or written
\* and no report is produced.
C24_InvalidConfigRaisesFirst ==
    LacksDatabaseConfig =>
        /\ folder = folder_before
        /\ \A p \in Procs :
               /\ pc[p] \in {"validate", "raised"}
               /\ pc[p] = "raised" => run[p].exception \in {"connection_params", "signals_query"}
               /\ ~run[p].data_read
               /\ ~run[p].pruned
               /\ run[p].read = {}
               /\ run[p].written = {}
               /\ ~run[p].plotted
               /\ run[p].report_result = "unset"

\* C24 witness: both runs have raised on connection parameters that name a
\* server and a database but no username.
C24_Witness ==
    /\ opts.connection_params = {"server", "database"}
    /\ \A p \in Procs : pc[p] = "raised" /\ run[p].exception = "connection_params"

\* the run q writes the history of type t in this step
Saves(q, t) == t \in run'[q].written /\ t \notin run[q].written

\* a stored record is inside the retention window of a save made now
Retained(r) ==
    cfg.alert_retention_weeks > 0 =>
        to_datetime(r.Date) >= Now - timedelta_weeks(cfg.alert_retention_weeks)

\* no other run overlaps the run q so far: each of them had ended when q
\* began, or has not begun yet
Sequential(q) == \A o \in Procs \ {q} : o \in run[q].after \/ pc[o] = "validate"

\* C25: main takes no lock, so two runs can both load before either saves
\* and the later save then drops what the earlier one stored; when the runs
\* are strictly sequential no save drops a stored record of the retention
\* window.
C25_SequentialRunsLoseNothing ==
    [][\A q \in Procs : \A t \in AlertTypes :
           (Saves(q, t) /\ Sequential(q))
               => \A r \in Rows(files[t]) : Retained(r) => r \in Rows(files'[t])]_vars

\* ------------------------------------------------------- runs one after another
\* the EntityKeys of a batch of rows
KeysIn(B) == {r.key : r \in Rows(B)}

\* this step is a run of main that follows an earlier run by less than
\* (alert_suppression_days - alert_flagging_days) days
RunsCloseTogether ==
    /\ runs >= 1
    /\ runs' = runs + 1
    /\ ranAt' - ranAt < timedelta_days(cfg.alert_suppression_days - cfg.alert_flagging_days)

\* C26: in runs less than (alert_suppression_days - alert_flagging_days) days
\* apart, a key that is in the Flagged set of a run and of the run before it
\* is not in the Reported set of the later run: the earlier run persisted the
\* key's rows, and they are still inside the suppression window.
C26_PersistingConditionReportedOnce ==
    [][RunsCloseTogether =>
           \A t \in AlertTypes :
               \A k \in KeysIn(flagged[t]) \cap KeysIn(flagged'[t]) :
                   k \notin KeysIn(reported'[t])]_vars

\* the run has loaded the histories and decided what to report
Decided(p) == pc[p] \in {"report", "update_and_save_alerts", "returned"} \/ run[p].plotted

\* the run q loads the alert histories in this step
Loads(q) == pc[q] = "load_past_alerts" /\ pc'[q] = "report"

\* C27: a run loads the histories before it suppresses and writes them only
\* after the report has been generated: a row whose key has no record in the
\* files as the run found them is reported, whatever the run itself flags;
\* a run that raises in plotting or report generation has written no
\* history file; and the next run reports again every row the failed run
\* was about to report and that it still flags.
C27_HistoryWrittenAfterReport ==
    [][/\ \A p \in Procs :
              /\ run'[p].written # {} => run'[p].plotted /\ run'[p].report_result # "unset"
              /\ run'[p].exception = "report" => run'[p].written = {}
              /\ (Decided(p)' /\ opts.use_past_alerts) =>
                     \A t \in AlertTypes :
                         \A r \in Rows(run'[p].recent_new_alerts[t]) :
                             r.key \notin KeysIn(run'[p].before[t])
                                 => r \in Rows(run'[p].final_alerts[t])
       /\ \A p, q \in Procs :
              (Loads(q) /\ p \in run[q].after /\ run[p].exception = "report")
                  => \A t \in AlertTypes :
                         \A r \in Rows(run[p].final_alerts[t]) \cap Rows(run[q].recent_new_alerts[t]) :
                             r \in Rows(run'[q].final_alerts[t])]_vars

\* C27 witness: a run raised in report generation after deciding to report a
\* row, the files are as it found them, and the run after it reports the
\* row again.
C27_Witness ==
    \E p, q \in Procs :
        /\ pc[p] = "raised"
        /\ run[p].exception = "report"
        /\ files = run[p].before
        /\ p \in run[q].after
        /\ pc[q] = "report"
        /\ \E r \in Rows(run[p].final_alerts["maxout"]) : r \in Rows(run[q].final_alerts["maxout"])
        /\ \E r \in Rows(run[q].recent_new_alerts["maxout"]) :
               r \notin Rows(run[q].final_alerts["maxout"])

\* the run p was to email its reports and email_reports returned failure
EmailFailed(p) == opts.should_email_reports /\ run[p].success = "False"

\* C28: when the reports are to be emailed and email_reports returns
\* failure, main still merges the Flagged batches of the run into the stored
\* histories, and the run that follows suppresses the keys of those batches.
C28_FailedEmailStillPersists ==
    [][/\ \A p \in Procs :
              (EmailFailed(p)' /\ opts.use_past_alerts /\ unwritable = {} /\ Ended(p)')
                  => pc'[p] = "returned" /\ run'[p].written = AlertTypes
       /\ \A p, q \in Procs :
              (Loads(q) /\ p \in run[q].after /\ EmailFailed(p) /\ run[p].written = AlertTypes)
                  => \A t \in AlertTypes :
                         \A k \in KeysIn(run[p].recent_new_alerts[t]) :
                             k \notin KeysIn(run'[q].final_alerts[t])]_vars

\* the calls of get_data so far that failed
FailedAttempts == {j \in 1..Len(attempts) : attempts[j] = "failed"}

\* run_daily_tasks has been called and has returned
DailyDone == dpc = "waiting" /\ attempts # << >>

\* C29: run_daily_tasks calls get_data at most three times and never again
\* after a call that succeeded; it has slept 30 seconds for every failed
\* call once the failure is handled; it launches ATSPMReport.py only after
\* a successful call or three failed ones, and when it returns it has
\* launched it exactly once.
C29_ThreeTriesThenOneLaunch ==
    /\ Len(attempts) <= 3
    /\ \A j \in 1..(Len(attempts) - 1) : attempts[j] = "failed"
    /\ dpc # "except" => slept = 30 * Cardinality(FailedAttempts)
    /\ dpc = "except" => slept = 30 * (Cardinality(FailedAttempts) - 1)
    /\ launched <= 1
    /\ (dpc = "subprocess.run" \/ launched = 1) =>
           /\ attempts # << >>
           /\ \/ attempts[Len(attempts)] = "ok"
              \/ Cardinality(FailedAttempts) = 3
    /\ DailyDone => launched = 1
    /\ dpc = "subprocess.run" => launched = 0

\* C29 witness: all three calls of get_data failed, 90 seconds were slept,
\* and ATSPMReport.py has been launched once on files the failed calls left
\* partly written.
C29_Witness ==
    /\ DailyDone
    /\ attempts = <<"failed", "failed", "failed">>
    /\ slept = 90
    /\ launched = 1
    /\ raw_files[1] = 3
    /\ raw_files[2] = -1
    /\ raw_files[3] = 0

\* C30: with use_past_alerts false no step of a run reads or writes an alert
\* history file, the stored history of every type stays as it was, an
\* unreadable or unwritable file does not disturb the run, and what the run
\* reports of every type is exactly what it flagged.
C30_NoHistoryWithoutPastAlerts ==
    [][~opts.use_past_alerts =>
           /\ files' = files
           /\ \A p \in Procs :
                  /\ run'[p].read = {}
                  /\ run'[p].written = {}
                  /\ run'[p].exception \notin {"load_past_alerts", "update_and_save_alerts"}
                  /\ Decided(p)' =>
                         \A t \in AlertTypes :
                             run'[p].final_alerts[t] = run'[p].recent_new_alerts[t]]_vars

\* C30 witness: a run without use_past_alerts has returned its report; the
\* stored maxout history holds a record of key 1 inside the suppression
\* window, and the run reported a maxout row of key 1 all the same.
C30_Witness ==
    \E p \in Procs :
        /\ ~opts.use_past_alerts
        /\ pc[p] = "returned"
        /\ run[p].report_result = "pdf_paths"
        /\ 1 \in KeysIn(files["maxout"])
        /\ 1 \in KeysIn(run[p].final_alerts["maxout"])
        /\ run[p].final_alerts = run[p].recent_new_alerts

====
